---- MODULE Spec2Model ----
(***************************************************************************)
(* Model of the lead-response assistant's guardrail post-processor         *)
(* (app/core/guardrails.py) and of the orchestration step that calls it    *)
(* (app/core/response_generator.py).                                       *)
(*                                                                         *)
(* Text is modelled as TLA+ strings, character by character.  The regular  *)
(* expressions of the rule table are kept as syntax trees and matched by   *)
(* a backtracking matcher with the priorities of Python's re module        *)
(* (leftmost match, earlier alternative first, greedy repetition).         *)
(***************************************************************************)
EXTENDS Integers, Sequences, FiniteSets, TLC

VARIABLES
    RULES,              \* guardrails._RULES
    BLOCKED_PHRASES,    \* guardrails._BLOCKED_PHRASES
    draft,              \* the draft reply under study (the LLM's output)
    first,              \* record of the first apply_guardrails(draft) call
    last,               \* record of the most recent apply_guardrails call
    pc,                 \* position of generate_lead_response
    gen,                \* locals of generate_lead_response
    response,           \* what generate_lead_response returned or raised
    calls,              \* frames of the apply_guardrails calls in progress
    groq,               \* the GroqService.chat_completion call in progress
    kb,                 \* knowledge_base._instance and the KnowledgeBase objects
    classify            \* the classify_intent call in progress

guardrailVars == <<RULES, BLOCKED_PHRASES, draft, first, last, pc, gen, response, calls>>

serviceVars == <<groq, kb, classify>>

vars == <<guardrailVars, serviceVars>>

\* ------------------------------------------------------------------------
\* Characters
\* ------------------------------------------------------------------------

\* str.lower() / re.IGNORECASE on the letters of the modelled alphabet.
UpperToLower ==
    [A |-> "a", B |-> "b", C |-> "c", D |-> "d", E |-> "e", F |-> "f",
     G |-> "g", H |-> "h", I |-> "i", J |-> "j", K |-> "k", L |-> "l",
     M |-> "m", N |-> "n", O |-> "o", P |-> "p", Q |-> "q", R |-> "r",
     S |-> "s", T |-> "t", U |-> "u", V |-> "v", W |-> "w", X |-> "x",
     Y |-> "y", Z |-> "z"]

UpperLetters == DOMAIN UpperToLower

LowerLetters == {UpperToLower[c] : c \in UpperLetters}

Digits == {"0", "1", "2", "3", "4", "5", "6", "7", "8", "9"}

\* \s of the re module, on the modelled alphabet.
Whitespace == {" ", "\n", "\t"}

\* \w of the re module, on the modelled alphabet.
WordChars == UpperLetters \cup LowerLetters \cup Digits \cup {"_"}

IsWord(c) == c \in WordChars

LowerChar(c) == IF c \in UpperLetters THEN UpperToLower[c] ELSE c

CharAt(s, i) == SubSeq(s, i, i)

RECURSIVE LowerRange(_, _, _)
LowerRange(s, a, b) ==
    IF a > b THEN ""
    ELSE IF a = b THEN LowerChar(CharAt(s, a))
    ELSE LET mid == (a + b) \div 2
         IN LowerRange(s, a, mid) \o LowerRange(s, mid + 1, b)

\* str.lower()
Lower(s) == LowerRange(s, 1, Len(s))

MinOf(set) == CHOOSE a \in set : \A b \in set : a <= b

MaxOf(set) == CHOOSE a \in set : \A b \in set : a >= b

\* ------------------------------------------------------------------------
\* Regular expressions: syntax
\* ------------------------------------------------------------------------

Lit(str) == [k |-> "lit", s |-> str]
Cls(name) == [k |-> "cls", c |-> name]
WordB == [k |-> "wb"]
Cat(parts) == [k |-> "cat", rs |-> parts]
Alt(parts) == [k |-> "alt", rs |-> parts]
\* re{lo,hi}; open is TRUE for re{lo,}, where hi is not read.
Rep(re, lo, hi) == [k |-> "rep", r |-> re, min |-> lo, max |-> hi, open |-> FALSE]
AtLeast(re, lo) == [k |-> "rep", r |-> re, min |-> lo, max |-> lo, open |-> TRUE]
Opt(re) == Rep(re, 0, 1)
Star(re) == AtLeast(re, 0)
Plus(re) == AtLeast(re, 1)

\* The character classes of the rule table: \d, \s, [\d,] and [- ].
ClassChars(name) ==
    CASE name = "d" -> Digits
      [] name = "s" -> Whitespace
      [] name = "dc" -> Digits \cup {","}
      [] name = "hs" -> {"-", " "}

InClass(name, c) == c \in ClassChars(name)

\* \b : exactly one of the characters around position i is a word character
\* (i is the index of the next character to read, 1 .. Len(s) + 1).
IsBoundary(s, i) ==
    LET before == i > 1 /\ i - 1 <= Len(s) /\ IsWord(CharAt(s, i - 1))
        after == i <= Len(s) /\ IsWord(CharAt(s, i))
    IN before # after

\* ------------------------------------------------------------------------
\* Regular expressions: backtracking matcher
\* ------------------------------------------------------------------------
\* Match(re, s, i) is the sequence of positions at which a match of re that
\* starts at i can end, in the order in which a backtracking matcher tries
\* them; its head is the end of the match the re module reports.

RECURSIVE Match(_, _, _)
RECURSIVE MatchCat(_, _, _, _)
RECURSIVE CatEnds(_, _, _, _, _)
RECURSIVE AltEnds(_, _, _, _)
RECURSIVE MatchRep(_, _, _, _, _, _)
RECURSIVE RepEnds(_, _, _, _, _, _, _, _)

\* A literal, compared character by character under re.IGNORECASE.
MatchLit(lit, s, i) ==
    IF /\ i + Len(lit) - 1 <= Len(s)
       /\ \A j \in 1..Len(lit) :
             LowerChar(CharAt(s, i + j - 1)) = LowerChar(CharAt(lit, j))
    THEN <<i + Len(lit)>>
    ELSE <<>>

Match(re, s, i) ==
    CASE re.k = "lit" -> MatchLit(re.s, s, i)
      [] re.k = "cls" ->
            IF i <= Len(s) /\ InClass(re.c, CharAt(s, i)) THEN <<i + 1>> ELSE <<>>
      [] re.k = "wb" -> IF IsBoundary(s, i) THEN <<i>> ELSE <<>>
      [] re.k = "cat" -> MatchCat(re.rs, 1, s, i)
      [] re.k = "alt" -> AltEnds(re.rs, 1, s, i)
      [] re.k = "rep" -> MatchRep(re.r, re.min, re.max, re.open, s, i)

MatchCat(rs, n, s, i) ==
    IF n > Len(rs) THEN <<i>>
    ELSE CatEnds(rs, n, s, Match(rs[n], s, i), 1)

CatEnds(rs, n, s, ends, j) ==
    IF j > Len(ends) THEN <<>>
    ELSE MatchCat(rs, n + 1, s, ends[j]) \o CatEnds(rs, n, s, ends, j + 1)

AltEnds(rs, n, s, i) ==
    IF n > Len(rs) THEN <<>>
    ELSE Match(rs[n], s, i) \o AltEnds(rs, n + 1, s, i)

\* Greedy repetition: one more iteration is tried before stopping.
MatchRep(re, lo, hi, open, s, i) ==
    LET more == IF ~open /\ hi = 0 THEN <<>>
                ELSE RepEnds(re, lo, hi, open, s, i, Match(re, s, i), 1)
    IN IF lo = 0 THEN more \o <<i>> ELSE more

RepEnds(re, lo, hi, open, s, i, ends, j) ==
    IF j > Len(ends) THEN <<>>
    ELSE (IF ends[j] > i
          THEN MatchRep(re, IF lo > 0 THEN lo - 1 ELSE 0,
                        IF open THEN hi ELSE hi - 1, open, s, ends[j])
          ELSE <<>>)
         \o RepEnds(re, lo, hi, open, s, i, ends, j + 1)

\* The scan shared by Pattern.findall and Pattern.sub: the spans
\* <<start, end>> of the non-overlapping matches, leftmost first, each
\* search resuming where the previous match ended.  (No pattern of the rule
\* table has a capturing group or matches the empty string.)
\* The characters (lowercased) a non-empty match of re can start with; the
\* scan attempts a match only where the text has one of them.
RECURSIVE Nullable(_)
RECURSIVE NullableAll(_, _)
RECURSIVE FirstChars(_)
RECURSIVE FirstOfCat(_, _)

Nullable(re) ==
    CASE re.k = "lit" -> re.s = ""
      [] re.k = "cls" -> FALSE
      [] re.k = "wb" -> TRUE
      [] re.k = "cat" -> NullableAll(re.rs, 1)
      [] re.k = "alt" -> \E n \in 1..Len(re.rs) : Nullable(re.rs[n])
      [] re.k = "rep" -> re.min = 0 \/ Nullable(re.r)

NullableAll(rs, n) ==
    IF n > Len(rs) THEN TRUE ELSE Nullable(rs[n]) /\ NullableAll(rs, n + 1)

FirstChars(re) ==
    CASE re.k = "lit" -> IF re.s = "" THEN {} ELSE {LowerChar(CharAt(re.s, 1))}
      [] re.k = "cls" -> ClassChars(re.c)
      [] re.k = "wb" -> {}
      [] re.k = "cat" -> FirstOfCat(re.rs, 1)
      [] re.k = "alt" -> UNION {FirstChars(re.rs[n]) : n \in 1..Len(re.rs)}
      [] re.k = "rep" -> FirstChars(re.r)

FirstOfCat(rs, n) ==
    IF n > Len(rs) THEN {}
    ELSE FirstChars(rs[n]) \cup (IF Nullable(rs[n]) THEN FirstOfCat(rs, n + 1) ELSE {})

MatchStarts(re, s) ==
    LET firsts == FirstChars(re)
    IN {i \in 1..Len(s) :
          /\ LowerChar(CharAt(s, i)) \in firsts
          /\ LET ends == Match(re, s, i) IN ends # <<>> /\ ends[1] > i}

RECURSIVE SpansFrom(_, _, _, _)
SpansFrom(re, s, starts, from) ==
    LET later == {i \in starts : i >= from}
    IN IF later = {} THEN <<>>
       ELSE LET a == MinOf(later)
                e == Match(re, s, a)[1]
            IN <<<<a, e>>>> \o SpansFrom(re, s, starts, e)

Spans(re, s) == SpansFrom(re, s, MatchStarts(re, s), 1)

\* Pattern.findall(s)
FindAll(re, s) ==
    LET spans == Spans(re, s)
    IN [j \in 1..Len(spans) |-> SubSeq(s, spans[j][1], spans[j][2] - 1)]

RECURSIVE SubSpans(_, _, _, _, _)
SubSpans(repl, s, spans, j, pos) ==
    IF j > Len(spans) THEN SubSeq(s, pos, Len(s))
    ELSE SubSeq(s, pos, spans[j][1] - 1) \o repl
         \o SubSpans(repl, s, spans, j + 1, spans[j][2])

\* Pattern.sub(repl, s): every non-overlapping match replaced by repl.
Sub(re, repl, s) == SubSpans(repl, s, Spans(re, s), 1, 1)

\* Pattern.search(s) is not None
Search(re, s) == MatchStarts(re, s) # {}

\* Pattern.sub(repl, s, count=1)
SubFirst(re, repl, s) ==
    LET spans == Spans(re, s)
    IN SubSpans(repl, s, IF spans = <<>> THEN <<>> ELSE <<spans[1]>>, 1, 1)

\* `phrase in text`
Contains(text, phrase) ==
    \/ phrase = ""
    \/ \E i \in 1..(Len(text) - Len(phrase) + 1) :
          /\ CharAt(text, i) = CharAt(phrase, 1)
          /\ SubSeq(text, i, i + Len(phrase) - 1) = phrase

\* str.strip()
Strip(s) ==
    LET kept == {i \in 1..Len(s) : CharAt(s, i) \notin Whitespace}
    IN IF kept = {} THEN "" ELSE SubSeq(s, MinOf(kept), MaxOf(kept))

\* ------------------------------------------------------------------------
\* Rule tables
\* ------------------------------------------------------------------------

Currency == Alt(<<Cat(<<Lit("Rs"), Opt(Lit("."))>>), Lit("INR"), Lit("₹")>>)

CurrencyAfter ==
    Alt(<<Cat(<<Lit("Rs"), Opt(Lit("."))>>), Lit("INR"), Lit("₹"), Lit("rupees")>>)

Amount ==
    Cat(<<Plus(Cls("dc")), Opt(Cat(<<Lit("."), Rep(Cls("d"), 1, 2)>>))>>)

PricePattern ==
    Alt(<<Cat(<<Currency, Star(Cls("s")), Amount>>),
          Cat(<<Amount, Star(Cls("s")), CurrencyAfter>>)>>)

TimelinePattern ==
    Cat(<<WordB, Alt(<<Lit("within"), Lit("in")>>), Plus(Cls("s")),
          Plus(Cls("d")), Star(Cls("s")),
          Alt(<<Cat(<<Lit("hour"), Opt(Lit("s"))>>),
                Cat(<<Lit("day"), Opt(Lit("s"))>>),
                Cat(<<Lit("week"), Opt(Lit("s"))>>),
                Cat(<<Lit("month"), Opt(Lit("s"))>>)>>),
          WordB>>)

Guarant == Cat(<<Lit("guarant"), Alt(<<Lit("ee"), Lit("y")>>)>>)

GuaranteePattern ==
    Cat(<<WordB,
          Alt(<<Cat(<<Lit("100"), Star(Cls("s")), Lit("%"), Star(Cls("s")), Guarant>>),
                Cat(<<Lit("lifetime"), Plus(Cls("s")),
                      Alt(<<Guarant, Lit("warranty")>>)>>),
                Cat(<<Lit("permanent"), Opt(Lit("ly")), Plus(Cls("s")),
                      Alt(<<Lit("fix"), Lit("solv"), Lit("cur")>>)>>),
                Cat(<<Lit("never"), Plus(Cls("s")),
                      Alt(<<Lit("leak"), Lit("seep"), Lit("damage")>>),
                      Plus(Cls("s")), Lit("again")>>)>>),
          WordB>>)

ScarePattern ==
    Cat(<<WordB,
          Alt(<<Cat(<<Lit("your"), Plus(Cls("s")),
                      Alt(<<Lit("house"), Lit("home"), Lit("building")>>),
                      Plus(Cls("s")), Alt(<<Lit("will"), Lit("could")>>),
                      Plus(Cls("s")), Lit("collapse")>>),
                Cat(<<Lit("extremely"), Plus(Cls("s")), Lit("dangerous")>>),
                Cat(<<Lit("life"), Cls("hs"), Lit("threatening"), Plus(Cls("s")),
                      Alt(<<Lit("situation"), Lit("condition")>>)>>)>>),
          WordB>>)

CompetitorPattern ==
    Cat(<<WordB,
          Cat(<<Lit("other"), Plus(Cls("s")), Lit("companies"), Plus(Cls("s")),
                Alt(<<Lit("will"), Lit("would")>>), Plus(Cls("s")),
                Alt(<<Lit("cheat"), Lit("scam"), Lit("overcharge"),
                      Cat(<<Lit("rip"), Star(Cls("s")), Lit("off")>>)>>)>>),
          WordB>>)

\* The sources of the compiled patterns, as written in the rule table.
PriceSource ==
    "(?:(?:Rs\\.?|INR|₹)\\s*[\\d,]+(?:\\.\\d{1,2})?|[\\d,]+(?:\\.\\d{1,2})?\\s*(?:Rs\\.?|INR|₹|rupees))"

TimelineSource == "\\b(?:within|in)\\s+\\d+\\s*(?:hours?|days?|weeks?|months?)\\b"

GuaranteeSource ==
    "\\b(?:100\\s*%\\s*guarant(?:ee|y)|lifetime\\s+(?:guarant(?:ee|y)|warranty)|"
        \o "permanent(?:ly)?\\s+(?:fix|solv|cur)|never\\s+(?:leak|seep|damage)\\s+again)\\b"

ScareSource ==
    "\\b(?:your\\s+(?:house|home|building)\\s+(?:will|could)\\s+collapse|"
        \o "extremely\\s+dangerous|life[- ]threatening\\s+(?:situation|condition))\\b"

CompetitorSource ==
    "\\b(?:other\\s+companies\\s+(?:will|would)\\s+(?:cheat|scam|overcharge|rip\\s*off))\\b"

\* re.compile(source, re.IGNORECASE) for the sources of the rule table.
Compile(source) ==
    CASE source = PriceSource -> PricePattern
      [] source = TimelineSource -> TimelinePattern
      [] source = GuaranteeSource -> GuaranteePattern
      [] source = ScareSource -> ScarePattern
      [] source = CompetitorSource -> CompetitorPattern

Rule(n, p, r) == [name |-> n, pattern |-> p, replacement |-> r]

InitialRules ==
    <<Rule("hallucinated_exact_price", PriceSource,
           "(pricing will be determined after a professional on-site assessment)"),
      Rule("hallucinated_timeline", TimelineSource,
           "(timeline will be confirmed after assessment)"),
      Rule("absolute_guarantee", GuaranteeSource,
           "(long-lasting solutions backed by professional assessment)"),
      Rule("scare_tactics", ScareSource,
           "(we recommend a professional assessment to evaluate the situation)"),
      Rule("competitor_bashing", CompetitorSource,
           "(we focus on transparency and professional service)")>>

InitialBlockedPhrases ==
    <<<<"i am an ai", "">>,
      <<"as an ai language model", "">>,
      <<"as a large language model", "">>,
      <<"i don't have access to real-time", "">>>>

\* ------------------------------------------------------------------------
\* apply_guardrails
\* ------------------------------------------------------------------------

GuardrailCheck(p, f, m) == [passed |-> p, flags |-> f, modifications_applied |-> m]

RECURSIVE Repeat(_, _)
Repeat(x, n) == IF n = 0 THEN <<>> ELSE <<x>> \o Repeat(x, n - 1)

\* Variant: only the first match is replaced (sub(..., count=1)).
PatternRuleStep_first_only(loc, rule) ==
    LET matches == FindAll(Compile(rule.pattern), loc.cleaned)
    IN IF matches # <<>>
       THEN [cleaned |-> SubFirst(Compile(rule.pattern), rule.replacement, loc.cleaned),
             flags |-> Append(loc.flags,
                              rule.name \o ": matched " \o ToString(Len(matches))
                                        \o " occurrence(s)"),
             modifications |-> Append(loc.modifications,
                              "Replaced " \o rule.name
                                          \o " matches with safe alternative.")]
       ELSE loc

\* Variant: one flag is appended per occurrence instead of one per rule.
PatternRuleStep_flag_each(loc, rule) ==
    LET matches == FindAll(Compile(rule.pattern), loc.cleaned)
    IN IF matches # <<>>
       THEN [cleaned |-> Sub(Compile(rule.pattern), rule.replacement, loc.cleaned),
             flags |-> loc.flags \o Repeat(rule.name \o ": matched 1 occurrence(s)",
                                           Len(matches)),
             modifications |-> Append(loc.modifications,
                              "Replaced " \o rule.name
                                          \o " matches with safe alternative.")]
       ELSE loc

\* Variant: the count in the flag is the number of positions at which a
\* match starts, overlapping matches included.
PatternRuleStep_count_starts(loc, rule) ==
    LET matches == FindAll(Compile(rule.pattern), loc.cleaned)
        starts == MatchStarts(Compile(rule.pattern), loc.cleaned)
    IN IF matches # <<>>
       THEN [cleaned |-> Sub(Compile(rule.pattern), rule.replacement, loc.cleaned),
             flags |-> Append(loc.flags,
                              rule.name \o ": matched " \o ToString(Cardinality(starts))
                                        \o " occurrence(s)"),
             modifications |-> Append(loc.modifications,
                              "Replaced " \o rule.name
                                          \o " matches with safe alternative.")]
       ELSE loc

\* One iteration of the loop over _RULES, on the locals
\* loc = [cleaned, flags, modifications].
PatternRuleStep(loc, rule) ==
    LET matches == FindAll(Compile(rule.pattern), loc.cleaned)
    IN IF matches # <<>>
       THEN [cleaned |-> Sub(Compile(rule.pattern), rule.replacement, loc.cleaned),
             flags |-> Append(loc.flags,
                              rule.name \o ": matched " \o ToString(Len(matches))
                                        \o " occurrence(s)"),
             modifications |-> Append(loc.modifications,
                              "Replaced " \o rule.name
                                          \o " matches with safe alternative.")]
       ELSE loc

\* Variant: every rule is matched against the original draft, and replaced
\* in the current text.
RECURSIVE PatternRulesOnDraft(_, _, _, _)
PatternRulesOnDraft(original, loc, rules, n) ==
    IF n > Len(rules) THEN loc
    ELSE LET rule == rules[n]
             matches == FindAll(Compile(rule.pattern), original)
             next == IF matches # <<>>
                     THEN [cleaned |-> Sub(Compile(rule.pattern), rule.replacement,
                                           loc.cleaned),
                           flags |-> Append(loc.flags,
                                        rule.name \o ": matched "
                                            \o ToString(Len(matches)) \o " occurrence(s)"),
                           modifications |-> Append(loc.modifications,
                                        "Replaced " \o rule.name
                                            \o " matches with safe alternative.")]
                     ELSE loc
         IN PatternRulesOnDraft(original, next, rules, n + 1)

PatternRules_match_draft(loc, rules, n) ==
    PatternRulesOnDraft(loc.cleaned, loc, rules, n)

\* The loop over _RULES, from rule n on.
RECURSIVE PatternRules(_, _, _)
PatternRules(loc, rules, n) ==
    IF n > Len(rules) THEN loc
    ELSE PatternRules(PatternRuleStep(loc, rules[n]), rules, n + 1)

\* Variant: the flag is put at the head of flags (flags.insert(0, ...)).
BlockedPhraseStep_flag_first(loc, lower_cleaned, entry) ==
    LET phrase == entry[1]
        repl == entry[2]
    IN IF Contains(lower_cleaned, phrase)
       THEN [cleaned |-> Sub(Lit(phrase), repl, loc.cleaned),
             flags |-> <<"blocked_phrase: '" \o phrase \o "'">> \o loc.flags,
             modifications |-> Append(loc.modifications,
                                      "Removed blocked phrase: '" \o phrase \o "'")]
       ELSE loc

\* One iteration of the loop over _BLOCKED_PHRASES; lower_cleaned is the
\* lowercased text computed once, before the loop.
BlockedPhraseStep(loc, lower_cleaned, entry) ==
    LET phrase == entry[1]
        repl == entry[2]
    IN IF Contains(lower_cleaned, phrase)
       THEN [cleaned |-> Sub(Lit(phrase), repl, loc.cleaned),
             flags |-> Append(loc.flags, "blocked_phrase: '" \o phrase \o "'"),
             modifications |-> Append(loc.modifications,
                                      "Removed blocked phrase: '" \o phrase \o "'")]
       ELSE loc

RECURSIVE BlockedPhrases(_, _, _, _)
BlockedPhrases(loc, lower_cleaned, phrases, n) ==
    IF n > Len(phrases) THEN loc
    ELSE BlockedPhrases(BlockedPhraseStep(loc, lower_cleaned, phrases[n]),
                        lower_cleaned, phrases, n + 1)

SpaceRun == Cat(<<Lit(" "), Plus(Lit(" "))>>)

NewlineRun == AtLeast(Lit("\n"), 3)

\* Variant: newline runs of two or more are collapsed to a single newline.
NormaliseWhitespace_collapse_pairs(text) ==
    Sub(AtLeast(Lit("\n"), 2), "\n", Strip(Sub(SpaceRun, " ", text)))

\* Variant: the .strip() is missing.
NormaliseWhitespace_no_strip(text) ==
    Sub(NewlineRun, "\n\n", Sub(SpaceRun, " ", text))

NormaliseWhitespace(text) ==
    Sub(NewlineRun, "\n\n", Strip(Sub(SpaceRun, " ", text)))

\* Variant: passed is computed from the text, not from the flags.
apply_guardrails_passed_if_unchanged(draft_reply, rules, phrases) ==
    LET start == [cleaned |-> draft_reply, flags |-> <<>>, modifications |-> <<>>]
        afterRules == PatternRules(start, rules, 1)
        afterPhrases == BlockedPhrases(afterRules, Lower(afterRules.cleaned), phrases, 1)
        cleaned == NormaliseWhitespace(afterPhrases.cleaned)
    IN [cleaned |-> cleaned,
        check |-> GuardrailCheck(cleaned = draft_reply, afterPhrases.flags,
                                 afterPhrases.modifications)]

\* Variant: the first character of the text is read before the rules run,
\* which raises IndexError on the empty string.
apply_guardrails_index_first(draft_reply, rules, phrases) ==
    LET start == [cleaned |-> draft_reply, flags |-> <<>>, modifications |-> <<>>]
        afterRules == PatternRules(start, rules, 1)
        afterPhrases == BlockedPhrases(afterRules, Lower(afterRules.cleaned), phrases, 1)
    IN IF draft_reply = "" THEN [raised |-> "IndexError"]
       ELSE [cleaned |-> NormaliseWhitespace(afterPhrases.cleaned),
             check |-> GuardrailCheck(afterPhrases.flags = <<>>, afterPhrases.flags,
                                      afterPhrases.modifications)]

\* Variant: flags is a module-level list that is never cleared, so a call
\* starts from the flags the previous call left.
apply_guardrails_shared_flags(draft_reply, rules, phrases) ==
    LET start == [cleaned |-> draft_reply, flags |-> last.check.flags,
                  modifications |-> <<>>]
        afterRules == PatternRules(start, rules, 1)
        afterPhrases == BlockedPhrases(afterRules, Lower(afterRules.cleaned), phrases, 1)
    IN [cleaned |-> NormaliseWhitespace(afterPhrases.cleaned),
        check |-> GuardrailCheck(afterPhrases.flags = <<>>, afterPhrases.flags,
                                 afterPhrases.modifications)]

\* apply_guardrails(draft_reply) with the rule tables it reads.
apply_guardrails(draft_reply, rules, phrases) ==
    LET start == [cleaned |-> draft_reply, flags |-> <<>>, modifications |-> <<>>]
        afterRules == PatternRules(start, rules, 1)
        afterPhrases == BlockedPhrases(afterRules, Lower(afterRules.cleaned), phrases, 1)
    IN [cleaned |-> NormaliseWhitespace(afterPhrases.cleaned),
        check |-> GuardrailCheck(afterPhrases.flags = <<>>, afterPhrases.flags,
                                 afterPhrases.modifications)]

\* ------------------------------------------------------------------------
\* Inputs
\* ------------------------------------------------------------------------

\* A draft is the concatenation of at most MaxFrags fragments of one family.
MaxFrags == 3

PhraseFragments ==
    {"i am an", " ai", "I am an AI", " don't have access to real-time", "ok "}

PatternFragments == {"Rs ", "5", "in 3 days ", "100% guarantee"}

ToneFragments == {"extremely dangerous", "other companies will scam", " ok "}

WhitespaceFragments == {" ", "\n\n", "\nok", "ok"}

Families == {PhraseFragments, PatternFragments, ToneFragments, WhitespaceFragments}

\* The drafts of the repository's tests (tests/test_assistant.py).
TestDrafts ==
    {"The waterproofing will cost Rs. 25,000 for your terrace.",
     "Total cost would be INR 15000 approximately.",
     "The inspection fee is ₹2,500.",
     "We will complete the work within 3 days.",
     "We provide a 100% guarantee on all waterproofing work.",
     "This comes with a lifetime warranty.",
     "As an AI language model, I can help you with your query.",
     "Thank you for reaching out! We understand your concern about "
        \o "damp patches on your wall. Our team of civil engineers can help "
        \o "diagnose the issue using thermal scanning technology.",
     "The repair will cost Rs. 10,000 and will be completed within 2 days. "
        \o "We offer a 100% guarantee."}

RECURSIVE Join(_)
Join(frags) == IF frags = <<>> THEN "" ELSE Head(frags) \o Join(Tail(frags))

DraftsOf(family) ==
    {Join(f) : f \in UNION {[1..n -> family] : n \in 0..MaxFrags}}

\* A text with every violation type at once.
AllViolations ==
    "As a large language model I am an AI: it costs 500 rupees, done in 2 hours "
        \o "with a lifetime guarantee; other companies would overcharge and it is "
        \o "extremely dangerous. As an AI language model "
        \o "I don't have access to real-time data."

\* The currency tokens of the price rule's description.
PriceTokens == {"Rs.", "Rs", "INR", "₹", "rupees"}

\* A price with the currency token before the amount, and after it.
TokenFirst(token, gap) == "It costs " \o token \o gap \o "500 only."

AmountFirst(token, gap) == "It costs 500" \o gap \o token \o " only."

PriceDrafts ==
    {TokenFirst(t, g) : t \in PriceTokens, g \in {"", " "}}
        \cup {AmountFirst(t, g) : t \in PriceTokens, g \in {"", " "}}

\* The wordings of the permanent-fix family.
GuaranteeDrafts ==
    {"This is a permanent fix.",
     "The leak is permanently fixed.",
     "We permanently solve seepage.",
     "It is a permanent cure."}

\* Ordinary prose with a comma after a word that ends in "rs".
ProseDrafts ==
    {"Our engineers, and plumbers will visit.",
     "It takes a few hours, not more."}

\* Drafts in which one step's rewriting makes or unmakes a later match.
CascadeDrafts ==
    {"5 Rsin 3 days Rs 100% guarantee",
     "as an i am an aiai language model",
     "Rs. i am an ai500"}

Drafts ==
    TestDrafts \cup {AllViolations} \cup UNION {DraftsOf(family) : family \in Families}
        \cup PriceDrafts \cup GuaranteeDrafts \cup ProseDrafts \cup CascadeDrafts

\* The drafts of the runs that interleave unrelated calls.
CallFragments == {"Rs ", "5", "in 3 days "}

CallDrafts == TestDrafts \cup DraftsOf(CallFragments)

\* Drafts of unrelated calls made before or between the calls under study.
OtherDrafts == {"This comes with a lifetime warranty."}

\* ------------------------------------------------------------------------
\* State machine: direct calls of apply_guardrails
\* ------------------------------------------------------------------------

NoCheck == GuardrailCheck(TRUE, <<>>, <<>>)

NoCall ==
    [kind |-> "none", input |-> "", returned |-> FALSE, cleaned |-> "",
     check |-> NoCheck, after |-> "none", again |-> FALSE]

\* The record of one call: its input, whether it returned (rather than
\* raised), what it returned, the kind of the call made before it and
\* whether the draft under study had already been processed before.
CallRecord(kind, input, result) ==
    LET returned == DOMAIN result = {"cleaned", "check"}
    IN [kind |-> kind, input |-> input, returned |-> returned,
        cleaned |-> IF returned THEN result.cleaned ELSE "",
        check |-> IF returned THEN result.check ELSE NoCheck,
        after |-> last.kind, again |-> first.kind # "none"]

NoGen ==
    [intent |-> "", sources |-> <<>>, draft |-> "", followup_questions |-> <<>>,
     followups_raised |-> FALSE, safe_reply |-> "", guardrail_check |-> NoCheck]

NoResponse == [status |-> "none"]

NoChatCompletion ==
    [phase |-> "idle", call |-> 0, attempt_number |-> 0, requests |-> 0,
     outcomes |-> <<>>, result |-> ""]

\* knowledge_base.py:171: _instance = None, no KnowledgeBase object yet.
\* instance is 0 for None, else the position of the object in objects.
NoKnowledgeBase ==
    [instance |-> 0, objects |-> <<>>, calls |-> 0, held |-> {},
     last |-> [op |-> "none"]]

NoClassification == [phase |-> "idle"]

Init ==
    /\ RULES = InitialRules
    /\ BLOCKED_PHRASES = InitialBlockedPhrases
    /\ draft \in Drafts
    /\ first = NoCall
    /\ last = NoCall
    /\ pc = "idle"
    /\ gen = NoGen
    /\ response = NoResponse
    /\ calls = <<>>
    /\ groq = NoChatCompletion
    /\ kb = NoKnowledgeBase
    /\ classify = NoClassification

\* Variant: the loop takes the rules out of the table
\* (while _RULES: rule = _RULES.pop(0)).
ApplyDraft_consumes_rules ==
    /\ pc = "idle"
    /\ \E result \in {apply_guardrails(draft, RULES, BLOCKED_PHRASES)} :
          /\ last' = CallRecord("draft", draft, result)
          /\ first' = IF first.kind = "none" THEN last' ELSE first
    /\ RULES' = <<>>
    /\ UNCHANGED <<serviceVars, calls, BLOCKED_PHRASES, draft, pc, gen, response>>

\* apply_guardrails(draft)
ApplyDraft ==
    /\ pc = "idle"
    /\ \E result \in {apply_guardrails(draft, RULES, BLOCKED_PHRASES)} :
          /\ last' = CallRecord("draft", draft, result)
          /\ first' = IF first.kind = "none" THEN last' ELSE first
    /\ UNCHANGED <<serviceVars, calls, RULES, BLOCKED_PHRASES, draft, pc, gen, response>>

\* apply_guardrails(cleaned), cleaned being the output of the previous call
ApplyCleaned ==
    /\ pc = "idle"
    /\ last.kind # "none"
    /\ last.returned
    /\ \E result \in {apply_guardrails(last.cleaned, RULES, BLOCKED_PHRASES)} :
          last' = CallRecord("cleaned", last.cleaned, result)
    /\ UNCHANGED <<serviceVars, calls, RULES, BLOCKED_PHRASES, draft, first, pc, gen, response>>

\* apply_guardrails(other), an unrelated call
ApplyOther ==
    /\ pc = "idle"
    /\ \E other \in OtherDrafts :
          \E result \in {apply_guardrails(other, RULES, BLOCKED_PHRASES)} :
             last' = CallRecord("other", other, result)
    /\ UNCHANGED <<serviceVars, calls, RULES, BLOCKED_PHRASES, draft, first, pc, gen, response>>

Next == ApplyDraft \/ ApplyCleaned

Spec == Init /\ [][Next]_vars

\* Runs in which unrelated calls come before and between the calls on the
\* draft under study.
InitCalls == Init /\ draft \in CallDrafts

NextCalls == ApplyDraft \/ ApplyCleaned \/ ApplyOther

SpecCalls == InitCalls /\ [][NextCalls]_vars

\* ------------------------------------------------------------------------
\* State machine: generate_lead_response behind POST /enquiry
\* ------------------------------------------------------------------------

Message == "There is a damp patch on my bedroom wall."

IntentAnalysis == [primary_intent |-> "water_damage", urgency |-> "medium"]

RetrievedSources == <<"services/waterproofing">>

\* JSON values, tagged with their type.
JsonNull == [t |-> "null"]
JsonNumber(n) == [t |-> "num", v |-> n]
JsonString(str) == [t |-> "str", v |-> str]
JsonList(items) == [t |-> "list", v |-> items]
JsonObject(fields) == [t |-> "obj", v |-> fields]

FollowUp ==
    [question |-> "How long has the patch been there?",
     reason |-> "Duration indicates severity."]

\* What groq.chat_completion_json gives _generate_followups: it raises (the
\* request failed on every attempt, or the reply is not JSON) or it returns
\* the parsed object.
FollowUpReplies ==
    {[kind |-> "raised", error |-> "APIConnectionError"],
     [kind |-> "raised", error |-> "ValueError"],
     [kind |-> "json", result |-> <<>>],
     [kind |-> "json", result |-> [questions |-> JsonList(<<>>)]],
     [kind |-> "json", result |-> [questions |-> JsonList(<<JsonObject(FollowUp)>>)]],
     [kind |-> "json",
      result |-> [questions |->
                     JsonList(<<JsonObject(FollowUp),
                                JsonObject([question |-> "Which floor?"])>>)]],
     [kind |-> "json", result |-> [questions |-> JsonNull]],
     [kind |-> "json",
      result |-> [questions |-> JsonList(<<JsonObject(FollowUp), JsonNumber(7)>>)]]}

\* The list comprehension of lines 210-214: it raises TypeError when
\* questions is not a list or an entry is not a dict, and keeps the entries
\* that have both keys.
FollowUpsOf(result) ==
    LET questions == IF "questions" \in DOMAIN result THEN result.questions
                     ELSE JsonList(<<>>)
        HasKeys(q) == {"question", "reason"} \subseteq DOMAIN q.v
    IN IF questions.t # "list" THEN [raised |-> "TypeError"]
       ELSE IF \E j \in 1..Len(questions.v) : questions.v[j].t # "obj"
       THEN [raised |-> "TypeError"]
       ELSE LET kept == SelectSeq(questions.v, HasKeys)
            IN [returned |-> [j \in 1..Len(kept) |->
                                 [question |-> kept[j].v.question,
                                  reason |-> kept[j].v.reason]]]

\* _generate_followups: the list of questions, or [] when anything in the
\* try block raised.
generate_followups(reply) ==
    LET outcome == IF reply.kind = "raised" THEN [raised |-> reply.error]
                   ELSE FollowUpsOf(reply.result)
    IN IF "raised" \in DOMAIN outcome
       THEN [questions |-> <<>>, raised |-> TRUE]
       ELSE [questions |-> outcome.returned, raised |-> FALSE]

LeadResponse(message, intent, reply, followups, check, sources) ==
    [status |-> "ok", original_message |-> message, intent_analysis |-> intent,
     drafted_reply |-> reply, follow_up_questions |-> followups,
     guardrail_check |-> check, sources_used |-> sources]

\* An exception leaving generate_lead_response: process_enquiry answers
\* HTTP 500 and no LeadResponse is produced.
Raised(step) == [status |-> "error", step |-> step]

StartRequest ==
    /\ pc = "idle"
    /\ response.status = "none"
    /\ last.kind = "none"
    /\ pc' = "classify"
    /\ gen' = NoGen
    /\ UNCHANGED <<serviceVars, calls, RULES, BLOCKED_PHRASES, draft, first, last, response>>

\* Step 1: classify_intent(message)
ClassifyIntent ==
    /\ pc = "classify"
    /\ \/ /\ gen' = [gen EXCEPT !.intent = IntentAnalysis]
          /\ pc' = "retrieve"
          /\ UNCHANGED response
       \/ /\ response' = Raised("classify_intent")
          /\ pc' = "done"
          /\ UNCHANGED gen
    /\ UNCHANGED <<serviceVars, calls, RULES, BLOCKED_PHRASES, draft, first, last>>

\* Step 2: kb.retrieve(message)
Retrieve ==
    /\ pc = "retrieve"
    /\ \/ /\ gen' = [gen EXCEPT !.sources = RetrievedSources]
          /\ pc' = "draft"
          /\ UNCHANGED response
       \/ /\ response' = Raised("retrieve")
          /\ pc' = "done"
          /\ UNCHANGED gen
    /\ UNCHANGED <<serviceVars, calls, RULES, BLOCKED_PHRASES, draft, first, last>>

\* Step 3: draft = groq.chat_completion(...)
GenerateDraft ==
    /\ pc = "draft"
    /\ \/ /\ gen' = [gen EXCEPT !.draft = draft]
          /\ pc' = "followups"
          /\ UNCHANGED response
       \/ /\ response' = Raised("chat_completion")
          /\ pc' = "done"
          /\ UNCHANGED gen
    /\ UNCHANGED <<serviceVars, calls, RULES, BLOCKED_PHRASES, draft, first, last>>

\* Variant: _generate_followups has no try/except, so what raises in it
\* leaves generate_lead_response.
GenerateFollowups_propagates ==
    /\ pc = "followups"
    /\ \E reply \in FollowUpReplies :
          LET followups == generate_followups(reply)
          IN IF followups.raised
             THEN /\ response' = Raised("generate_followups")
                  /\ pc' = "done"
                  /\ UNCHANGED gen
             ELSE /\ gen' = [gen EXCEPT !.followup_questions = followups.questions]
                  /\ pc' = "guardrails"
                  /\ UNCHANGED response
    /\ UNCHANGED <<serviceVars, calls, RULES, BLOCKED_PHRASES, draft, first, last>>

\* Step 3b: _generate_followups(...), which returns [] on any exception
GenerateFollowups ==
    /\ pc = "followups"
    /\ \E reply \in FollowUpReplies :
          LET followups == generate_followups(reply)
          IN gen' = [gen EXCEPT !.followup_questions = followups.questions,
                                !.followups_raised = followups.raised]
    /\ pc' = "guardrails"
    /\ UNCHANGED <<serviceVars, calls, RULES, BLOCKED_PHRASES, draft, first, last, response>>

\* Step 4: safe_reply, guardrail_check = apply_guardrails(draft)
Guardrails ==
    /\ pc = "guardrails"
    /\ \E result \in {apply_guardrails(gen.draft, RULES, BLOCKED_PHRASES)} :
          /\ last' = CallRecord("draft", gen.draft, result)
          /\ first' = IF first.kind = "none" THEN last' ELSE first
          /\ gen' = [gen EXCEPT !.safe_reply = last'.cleaned,
                                !.guardrail_check = last'.check]
    /\ pc' = "respond"
    /\ UNCHANGED <<serviceVars, calls, RULES, BLOCKED_PHRASES, draft, response>>

\* Variant: the response carries the raw draft instead of safe_reply.
Respond_raw_draft ==
    /\ pc = "respond"
    /\ response' = LeadResponse(Message, gen.intent, gen.draft,
                                gen.followup_questions, gen.guardrail_check,
                                gen.sources)
    /\ pc' = "done"
    /\ UNCHANGED <<serviceVars, calls, RULES, BLOCKED_PHRASES, draft, first, last, gen>>

\* return LeadResponse(...)
Respond ==
    /\ pc = "respond"
    /\ response' = LeadResponse(Message, gen.intent, gen.safe_reply,
                                gen.followup_questions, gen.guardrail_check,
                                gen.sources)
    /\ pc' = "done"
    /\ UNCHANGED <<serviceVars, calls, RULES, BLOCKED_PHRASES, draft, first, last, gen>>

NextPipeline ==
    \/ StartRequest
    \/ ClassifyIntent
    \/ Retrieve
    \/ GenerateDraft
    \/ GenerateFollowups
    \/ Guardrails
    \/ Respond

SpecPipeline == Init /\ [][NextPipeline]_vars

\* ------------------------------------------------------------------------
\* State machine: apply_guardrails called by parallel callers
\* ------------------------------------------------------------------------
\* Each call has its own frame (draft_reply, cleaned, flags, modifications,
\* lower_cleaned); the calls are interleaved statement by statement.

\* The number of parallel callers.
NumCallers == 2

Callers == 1..NumCallers

ThreadDrafts ==
    {"Rs 5 in 3 days  I am an AI",
     "As an AI language model, 100% guarantee",
     " ok  ok\n\n\nok "}

\* Lines 113-115: the frame of a call that has just been entered.
NewCall(draft_reply) ==
    [input |-> draft_reply, pc |-> "rules", n |-> 1,
     loc |-> [cleaned |-> draft_reply, flags |-> <<>>, modifications |-> <<>>],
     lower_cleaned |-> "", result |-> <<>>]

InitThreads ==
    /\ RULES = InitialRules
    /\ BLOCKED_PHRASES = InitialBlockedPhrases
    /\ draft = ""
    /\ first = NoCall
    /\ last = NoCall
    /\ pc = "idle"
    /\ gen = NoGen
    /\ response = NoResponse
    /\ groq = NoChatCompletion
    /\ kb = NoKnowledgeBase
    /\ classify = NoClassification
    /\ calls \in [Callers -> {NewCall(d) : d \in ThreadDrafts}]

\* Lines 118-124: one iteration of the loop over _RULES in call c.
RuleIteration(c) ==
    /\ calls[c].pc = "rules"
    /\ LET n == calls[c].n
       IN calls' = [calls EXCEPT
                       ![c].loc = PatternRuleStep(@, RULES[n]),
                       ![c].n = IF n = Len(RULES) THEN 1 ELSE n + 1,
                       ![c].pc = IF n = Len(RULES) THEN "lower" ELSE "rules"]
    /\ UNCHANGED <<serviceVars, RULES, BLOCKED_PHRASES, draft, first, last, pc, gen, response>>

\* Line 127: lower_cleaned = cleaned.lower()
LowerSnapshot(c) ==
    /\ calls[c].pc = "lower"
    /\ calls' = [calls EXCEPT ![c].lower_cleaned = Lower(calls[c].loc.cleaned),
                              ![c].pc = "phrases"]
    /\ UNCHANGED <<serviceVars, RULES, BLOCKED_PHRASES, draft, first, last, pc, gen, response>>

\* Lines 128-133: one iteration of the loop over _BLOCKED_PHRASES in call c.
PhraseIteration(c) ==
    /\ calls[c].pc = "phrases"
    /\ LET n == calls[c].n
       IN calls' = [calls EXCEPT
                       ![c].loc = BlockedPhraseStep(@, calls[c].lower_cleaned,
                                                    BLOCKED_PHRASES[n]),
                       ![c].n = IF n = Len(BLOCKED_PHRASES) THEN 1 ELSE n + 1,
                       ![c].pc = IF n = Len(BLOCKED_PHRASES)
                                 THEN "normalise" ELSE "phrases"]
    /\ UNCHANGED <<serviceVars, RULES, BLOCKED_PHRASES, draft, first, last, pc, gen, response>>

\* Lines 136-137: the whitespace clean-up of call c.
Normalise(c) ==
    /\ calls[c].pc = "normalise"
    /\ calls' = [calls EXCEPT
                    ![c].loc.cleaned = NormaliseWhitespace(@),
                    ![c].pc = "return"]
    /\ UNCHANGED <<serviceVars, RULES, BLOCKED_PHRASES, draft, first, last, pc, gen, response>>

\* Variant: flags is one module-level list that every call appends to.
ReturnCall_shared_flags(c) ==
    /\ calls[c].pc = "return"
    /\ LET loc == calls[c].loc
           shared == [k \in Callers |-> calls[k].loc.flags]
           flags == IF NumCallers = 1 THEN shared[1]
                    ELSE shared[1] \o shared[NumCallers]
       IN calls' = [calls EXCEPT
                       ![c].result = [cleaned |-> loc.cleaned,
                                      check |-> GuardrailCheck(flags = <<>>, flags,
                                                               loc.modifications)],
                       ![c].pc = "done"]
    /\ UNCHANGED <<serviceVars, RULES, BLOCKED_PHRASES, draft, first, last, pc, gen, response>>

\* Lines 139-152: call c builds its GuardrailCheck and returns.
ReturnCall(c) ==
    /\ calls[c].pc = "return"
    /\ LET loc == calls[c].loc
       IN calls' = [calls EXCEPT
                       ![c].result = [cleaned |-> loc.cleaned,
                                      check |-> GuardrailCheck(loc.flags = <<>>,
                                                               loc.flags,
                                                               loc.modifications)],
                       ![c].pc = "done"]
    /\ UNCHANGED <<serviceVars, RULES, BLOCKED_PHRASES, draft, first, last, pc, gen, response>>

NextThreads ==
    \E c \in Callers :
        \/ RuleIteration(c)
        \/ LowerSnapshot(c)
        \/ PhraseIteration(c)
        \/ Normalise(c)
        \/ ReturnCall(c)

SpecThreads == InitThreads /\ [][NextThreads]_vars

\* ------------------------------------------------------------------------
\* Properties of apply_guardrails
\* ------------------------------------------------------------------------

RuleIds == 1..Len(RULES)

PhraseIds == 1..Len(BLOCKED_PHRASES)

PhraseOf(n) == BLOCKED_PHRASES[n][1]

\* Rule n matches the text / phrase n occurs in it, case-insensitively.
RuleMatches(n, text) == Search(Compile(RULES[n].pattern), text)

PhraseOccurs(n, text) == Contains(Lower(text), PhraseOf(n))

\* The text has none of the configured patterns or phrases.
CleanText(text) ==
    /\ \A n \in RuleIds : ~RuleMatches(n, text)
    /\ \A n \in PhraseIds : ~PhraseOccurs(n, text)

\* No run of two spaces, no run of three newlines, no whitespace at the ends.
WellSpaced(text) ==
    /\ ~Contains(text, "  ")
    /\ ~Contains(text, "\n\n\n")
    /\ text # "" => /\ CharAt(text, 1) \notin Whitespace
                    /\ CharAt(text, Len(text)) \notin Whitespace

\* The texts the loop over _RULES goes through: entry n is the text as rule
\* n finds it, rewritten by rules 1 .. n-1; the last entry is the text the
\* loop leaves.
RECURSIVE RuleTextsFrom(_, _)
RuleTextsFrom(texts, n) ==
    IF n > Len(RULES) THEN texts
    ELSE RuleTextsFrom(Append(texts, Sub(Compile(RULES[n].pattern),
                                         RULES[n].replacement, texts[n])),
                       n + 1)

RuleTexts(text) == RuleTextsFrom(<<text>>, 1)

TextBeforeRule(text, n) == RuleTexts(text)[n]

\* The rules that match when their turn comes, and the phrases that occur
\* in the text as the pattern rules leave it.
TriggeredRules(text) ==
    LET texts == RuleTexts(text)
    IN {n \in RuleIds : RuleMatches(n, texts[n])}

TriggeredPhrases(text) ==
    LET lower == Lower(TextBeforeRule(text, Len(RULES) + 1))
    IN {n \in PhraseIds : Contains(lower, PhraseOf(n))}

StartsWith(text, prefix) ==
    Len(text) >= Len(prefix) /\ SubSeq(text, 1, Len(prefix)) = prefix

FlagsOfRule(flags, n) ==
    {j \in 1..Len(flags) : StartsWith(flags[j], RULES[n].name \o ":")}

FlagsOfPhrase(flags, n) ==
    {j \in 1..Len(flags) : flags[j] = "blocked_phrase: '" \o PhraseOf(n) \o "'"}

\* C1: applying apply_guardrails to its own output returns that output
\* unchanged, with passed true and no flags.
Idempotence ==
    last.kind = "cleaned" =>
        /\ last.cleaned = last.input
        /\ last.check.passed
        /\ last.check.flags = <<>>

\* C2 as stated: a draft with none of the patterns or phrases is returned
\* exactly, whatever its whitespace, with passed true and no flags.
NoOpOnCleanText ==
    (last.kind = "draft" /\ CleanText(draft)) =>
        /\ last.cleaned = draft
        /\ last.check.passed
        /\ last.check.flags = <<>>

\* C2 amended: a draft with none of the patterns or phrases that has no run
\* of two spaces, no run of three newlines and no whitespace at its ends is
\* returned exactly; every draft with none of the patterns or phrases gets
\* passed true and no flags.
NoOpOnCleanWellSpacedText ==
    (last.kind = "draft" /\ CleanText(draft)) =>
        /\ WellSpaced(draft) => last.cleaned = draft
        /\ last.check.passed
        /\ last.check.flags = <<>>

NoOpWitness ==
    /\ last.kind = "draft"
    /\ CleanText(draft)
    /\ WellSpaced(draft)
    /\ Contains(draft, "\n\n")
    /\ last.cleaned = draft

\* Exactly rule n, and no other rule or phrase, matches the text.
OnlyRule(n, text) ==
    /\ RuleMatches(n, text)
    /\ \A m \in RuleIds \ {n} : ~RuleMatches(m, text)
    /\ \A m \in PhraseIds : ~PhraseOccurs(m, text)

BlockedPhraseRemoval ==
    last.kind = "draft" =>
        /\ \A n \in PhraseIds : ~PhraseOccurs(n, last.cleaned)
        /\ (\E n \in PhraseIds : PhraseOccurs(n, draft)) => ~last.check.passed

\* C5 as stated: the number of flags is the number of rules and phrases
\* that match the draft itself, and passed is false when there is one.
ExhaustiveDetectionOnDraft ==
    last.kind = "draft" =>
        LET rules == {n \in RuleIds : RuleMatches(n, draft)}
            phrases == {n \in PhraseIds : PhraseOccurs(n, draft)}
        IN /\ Len(last.check.flags) = Cardinality(rules) + Cardinality(phrases)
           /\ \A n \in rules : Cardinality(FlagsOfRule(last.check.flags, n)) = 1
           /\ \A n \in phrases : Cardinality(FlagsOfPhrase(last.check.flags, n)) = 1
           /\ (rules \cup phrases # {}) => ~last.check.passed

\* C5 amended: flags has exactly one entry for each pattern rule that
\* matches the text as the earlier pattern rules left it and one for each
\* phrase that occurs in the text as the pattern rules left it, and no
\* other entry; passed is false when there is one.  A draft whose price,
\* timeline and guarantee each match at their turn gets at least three.
ExhaustiveDetectionInCascade ==
    last.kind = "draft" =>
        LET rules == TriggeredRules(draft)
            phrases == TriggeredPhrases(draft)
        IN /\ Len(last.check.flags) = Cardinality(rules) + Cardinality(phrases)
           /\ \A n \in rules : Cardinality(FlagsOfRule(last.check.flags, n)) = 1
           /\ \A n \in phrases : Cardinality(FlagsOfPhrase(last.check.flags, n)) = 1
           /\ (rules \cup phrases # {}) => ~last.check.passed
           /\ {1, 2, 3} \subseteq rules => Len(last.check.flags) >= 3

ExhaustiveWitness ==
    /\ last.kind = "draft"
    /\ {1, 2, 3} \subseteq TriggeredRules(draft)
    /\ Len(FindAll(Compile(RULES[1].pattern), draft)) >= 1
    /\ Len(last.check.flags) = 3

\* C6: the output has no run of two spaces, no run of three newlines and no
\* whitespace at its ends.
WhitespaceNormalised ==
    (last.kind # "none" /\ last.returned) => WellSpaced(last.cleaned)

WhitespaceWitness ==
    /\ last.kind = "draft"
    /\ ~Contains(draft, "  ")
    /\ last.check.flags # <<>>
    /\ Len(last.cleaned) > 0
    /\ \E i \in 1..Len(draft) :
          /\ StartsWith(SubSeq(draft, i, Len(draft)), " I am an AI ")
          /\ i > 1

\* C7: passed is true exactly when flags is empty, that is exactly when no
\* pattern rule and no phrase rule triggered in the call.
PassedIffNoFlags ==
    (last.kind # "none" /\ last.returned) =>
        /\ last.check.passed <=> last.check.flags = <<>>
        /\ last.check.flags = <<>> <=>
              (TriggeredRules(last.input) = {} /\ TriggeredPhrases(last.input) = {})

PassedWitness ==
    /\ last.kind = "draft"
    /\ ~last.check.passed
    /\ Len(last.check.flags) >= 2

\* C9: every call returns a (cleaned, check) pair, whatever the text; the
\* empty string gives the empty string and passed true.
Totality ==
    last.kind # "none" =>
        /\ last.returned
        /\ last.check.passed \in BOOLEAN
        /\ Len(last.check.flags) = Len(last.check.modifications_applied)
        /\ last.input = "" => (last.cleaned = "" /\ last.check.passed)

TotalityWitness ==
    /\ last.kind = "draft"
    /\ draft = ""
    /\ last.returned
    /\ last.cleaned = ""

ResponseIsGuardrailed ==
    response.status = "ok" =>
        /\ last.kind = "draft"
        /\ last.input = draft
        /\ gen.draft = draft
        /\ response.drafted_reply = last.cleaned
        /\ response.guardrail_check = last.check

ResponseWitness ==
    /\ response.status = "ok"
    /\ response.drafted_reply # draft
    /\ ~response.guardrail_check.passed

\* ------------------------------------------------------------------------
\* Properties of parallel calls
\* ------------------------------------------------------------------------

\* What apply_guardrails returns for each draft when it runs alone.
RunAlone ==
    [d \in ThreadDrafts |-> apply_guardrails(d, InitialRules, InitialBlockedPhrases)]

\* C11: whatever the interleaving of the calls' statements, a call that has
\* returned has returned the (cleaned, check) pair that apply_guardrails
\* returns for its draft when it runs alone.
ConcurrentIndependence ==
    \A c \in Callers :
        calls[c].pc = "done" => calls[c].result = RunAlone[calls[c].input]

\* A call has returned flags while a call on another draft, entered before
\* it returned, is in the middle of its phrase loop with flags of its own.
ConcurrentWitness ==
    /\ calls # <<>>
    /\ calls[1].pc = "done"
    /\ calls[1].result.check.flags # <<>>
    /\ calls[NumCallers].pc = "phrases"
    /\ calls[NumCallers].input # calls[1].input
    /\ calls[NumCallers].loc.flags # <<>>

\* ------------------------------------------------------------------------
\* Properties of the rule table
\* ------------------------------------------------------------------------

RuleNamed(name) == CHOOSE n \in RuleIds : RULES[n].name = name

\* C12: every draft with one of the currency tokens right before the amount
\* 500, or right after it, is flagged hallucinated_exact_price and has the
\* amount replaced by the rule's replacement.
PriceEitherOrder ==
    (last.kind = "draft" /\ draft \in PriceDrafts) =>
        LET price == RuleNamed("hallucinated_exact_price")
        IN /\ FlagsOfRule(last.check.flags, price) # {}
           /\ ~Contains(last.cleaned, "500")
           /\ Contains(last.cleaned, RULES[price].replacement)

\* C13: every draft with "permanent" or "permanently", whitespace and a
\* word beginning with fix, solv or cur is flagged absolute_guarantee and
\* has passed false.
PermanentFixStemMatched ==
    (last.kind = "draft" /\ draft \in GuaranteeDrafts) =>
        /\ FlagsOfRule(last.check.flags, RuleNamed("absolute_guarantee")) # {}
        /\ ~last.check.passed

\* ------------------------------------------------------------------------
\* Properties of the order of application
\* ------------------------------------------------------------------------

\* C14: the pattern rules are price, timeline, guarantee, scare tactics and
\* competitor bashing in that order, and rule n is flagged exactly when it
\* matches the draft as rewritten by rules 1 .. n-1, whether or not it
\* matches the draft itself.
PatternCascade ==
    last.kind = "draft" =>
        /\ [n \in RuleIds |-> RULES[n].name] =
              <<"hallucinated_exact_price", "hallucinated_timeline",
                "absolute_guarantee", "scare_tactics", "competitor_bashing">>
        /\ LET texts == RuleTexts(draft)
           IN \A n \in RuleIds :
                 FlagsOfRule(last.check.flags, n) # {} <=> RuleMatches(n, texts[n])

\* A rule that matches the draft is not flagged because an earlier rule
\* replaced its match, and a rule that does not match the draft is flagged
\* because an earlier replacement completed its match.
PatternCascadeWitness ==
    /\ last.kind = "draft"
    /\ \E n \in RuleIds :
          RuleMatches(n, draft) /\ FlagsOfRule(last.check.flags, n) = {}
    /\ \E n \in RuleIds :
          ~RuleMatches(n, draft) /\ FlagsOfRule(last.check.flags, n) # {}

\* The text as the loop over _BLOCKED_PHRASES holds it when phrase n has its
\* turn: rewritten by the pattern rules and by the turns of phrases 1 .. n-1.
TextBeforePhrase(text, n) ==
    LET start == [cleaned |-> text, flags |-> <<>>, modifications |-> <<>>]
        afterRules == PatternRules(start, RULES, 1)
    IN BlockedPhrases(afterRules, Lower(afterRules.cleaned),
                      SubSeq(BLOCKED_PHRASES, 1, n - 1), 1).cleaned

\* C15: phrase n gets a flag and a modification exactly when it occurs,
\* case-insensitively, in the cleaned text as it stands at its turn, after
\* the deletions of the earlier phrases.
PhraseCascade ==
    last.kind = "draft" =>
        \A n \in PhraseIds :
            LET occurs == PhraseOccurs(n, TextBeforePhrase(draft, n))
                removed == "Removed blocked phrase: '" \o PhraseOf(n) \o "'"
            IN /\ FlagsOfPhrase(last.check.flags, n) # {} <=> occurs
               /\ (\E j \in 1..Len(last.check.modifications_applied) :
                       last.check.modifications_applied[j] = removed) <=> occurs

\* The position, in the rule table followed by the phrase table, of the rule
\* a flag or a modification refers to (0 when it refers to none).
EntryIds == 1..(Len(RULES) + Len(BLOCKED_PHRASES))

FlagOfEntry(k) ==
    IF k <= Len(RULES) THEN RULES[k].name \o ": matched "
    ELSE "blocked_phrase: '" \o PhraseOf(k - Len(RULES)) \o "'"

ModificationOfEntry(k) ==
    IF k <= Len(RULES)
    THEN "Replaced " \o RULES[k].name \o " matches with safe alternative."
    ELSE "Removed blocked phrase: '" \o PhraseOf(k - Len(RULES)) \o "'"

EntryOfFlag(flag) ==
    LET ks == {k \in EntryIds :
                 IF k <= Len(RULES) THEN StartsWith(flag, FlagOfEntry(k))
                 ELSE flag = FlagOfEntry(k)}
    IN IF ks = {} THEN 0 ELSE MinOf(ks)

EntryOfModification(modification) ==
    LET ks == {k \in EntryIds : modification = ModificationOfEntry(k)}
    IN IF ks = {} THEN 0 ELSE MinOf(ks)

\* C16: flags and modifications_applied have the same length, entry i of
\* both refers to the same rule, and the rules referred to come in the order
\* of the rule table followed by the phrase table.
AuditTrailOrdering ==
    (last.kind # "none" /\ last.returned) =>
        LET flags == last.check.flags
            mods == last.check.modifications_applied
        IN /\ Len(flags) = Len(mods)
           /\ \A i \in 1..Len(flags) :
                 /\ EntryOfFlag(flags[i]) # 0
                 /\ EntryOfFlag(flags[i]) = EntryOfModification(mods[i])
           /\ \A i, j \in 1..Len(flags) :
                 i < j => EntryOfFlag(flags[i]) < EntryOfFlag(flags[j])

\* A call that flagged two pattern rules and then two phrases.
AuditTrailWitness ==
    /\ last.kind = "draft"
    /\ Len(last.check.flags) >= 4
    /\ \E i \in 2..(Len(last.check.flags) - 2) :
          /\ EntryOfFlag(last.check.flags[i]) <= Len(RULES)
          /\ EntryOfFlag(last.check.flags[i + 1]) > Len(RULES)

\* The number of places at which the text has the given substring.
Occurrences(text, part) ==
    Cardinality({i \in 1..(Len(text) - Len(part) + 1) :
                    /\ CharAt(text, i) = CharAt(part, 1)
                    /\ SubSeq(text, i, i + Len(part) - 1) = part})

\* The number of copies of its replacement that the step of rule n puts
\* into the text.
Replaced(text, n) ==
    LET texts == RuleTexts(text)
    IN Occurrences(texts[n + 1], RULES[n].replacement)
          - Occurrences(texts[n], RULES[n].replacement)

\* C17: no rule or phrase has more than one flag in a call, so flags has at
\* most as many entries as there are rules and phrases (9), and the count in
\* a pattern rule's flag is the number of occurrences its step replaced.
OneFlagPerRule ==
    (last.kind # "none" /\ last.returned) =>
        LET flags == last.check.flags
        IN /\ Len(flags) <= Len(RULES) + Len(BLOCKED_PHRASES)
           /\ Len(RULES) + Len(BLOCKED_PHRASES) = 9
           /\ \A k \in EntryIds :
                 Cardinality({i \in 1..Len(flags) : EntryOfFlag(flags[i]) = k}) <= 1
           /\ \A i \in 1..Len(flags) :
                 LET k == EntryOfFlag(flags[i])
                 IN (k # 0 /\ k <= Len(RULES)) =>
                       flags[i] = RULES[k].name \o ": matched "
                                     \o ToString(Replaced(last.input, k))
                                     \o " occurrence(s)"

\* A rule matched several times and has one flag, with that count.
OneFlagWitness ==
    /\ last.kind = "draft"
    /\ \E i \in 1..Len(last.check.flags) :
          LET k == EntryOfFlag(last.check.flags[i])
          IN k # 0 /\ k <= Len(RULES) /\ Replaced(draft, k) >= 3

\* ------------------------------------------------------------------------
\* Properties of what the rules leave and what they touch
\* ------------------------------------------------------------------------

HasDigit(text) == \E i \in 1..Len(text) : CharAt(text, i) \in Digits

IsLetter(c) == c \in UpperLetters \cup LowerLetters

\* The match text[a .. e-1] has a digit, and a currency word at either end
\* of it is not part of a longer word.
StandaloneAmount(text, a, e) ==
    /\ HasDigit(SubSeq(text, a, e - 1))
    /\ IsLetter(CharAt(text, a)) => IsBoundary(text, a)
    /\ IsLetter(CharAt(text, e - 1)) => IsBoundary(text, e)

\* C18: every match of the price rule in a draft is a standalone currency
\* token next to a number with at least one digit, and prose with a comma
\* after a word ending in "rs" is returned unmodified with passed true.
PriceOnlyOnAmounts ==
    last.kind = "draft" =>
        LET price == RuleNamed("hallucinated_exact_price")
            spans == Spans(Compile(RULES[price].pattern), draft)
        IN /\ \A j \in 1..Len(spans) :
                 StandaloneAmount(draft, spans[j][1], spans[j][2])
           /\ draft \in ProseDrafts =>
                 (last.cleaned = draft /\ last.check.passed)

\* C19: the text a call returns has no match of any of the five pattern
\* rules.
NoPatternRemains ==
    (last.kind = "draft" /\ last.returned) =>
        \A n \in RuleIds : ~RuleMatches(n, last.cleaned)

\* C20: after any sequence of calls the rule tables are the tables built at
\* import (same rules, same order, same replacements), and the draft passed
\* to a call is still the caller's draft.
NoPersistentState ==
    /\ RULES = InitialRules
    /\ BLOCKED_PHRASES = InitialBlockedPhrases
    /\ last.kind = "draft" => last.input = draft

\* The draft was processed, with flags, then an unrelated call was made,
\* then the draft was processed again.
NoPersistentStateWitness ==
    /\ last.kind = "draft"
    /\ last.again
    /\ last.after = "other"
    /\ Len(first.check.flags) >= 2

\* ------------------------------------------------------------------------
\* GroqService.chat_completion under tenacity's @retry
\* ------------------------------------------------------------------------

\* stop_after_attempt(3)
MaxAttempts == 3

MaxChatCompletions == 2

\* What one run of the decorated body does after it has sent its request:
\* create() raises, or it returns a response whose content is read at line 87
\* (`content or ""`; no choice in the response is an IndexError).
Raises(error) == [kind |-> "raises", error |-> error]
Responds(content) == [kind |-> "responds", content |-> content]

ApiErrors == {"APIConnectionError", "RateLimitError", "APITimeoutError"}

AttemptOutcomes ==
    {Raises(e) : e \in ApiErrors \cup {"IndexError", "KeyboardInterrupt"}}
        \cup {Responds(JsonString("Thanks for reaching out.")),
              Responds(JsonString("")),
              Responds(JsonNull)}

\* retry_if_exception_type(Exception): KeyboardInterrupt is a BaseException
\* only, and is not retried.
IsException(error) == error # "KeyboardInterrupt"

\* Line 87: response.choices[0].message.content or ""
ContentOf(outcome) ==
    IF outcome.content.t = "null" THEN "" ELSE outcome.content.v

\* A caller enters chat_completion: tenacity starts with attempt 1.
ChatCompletion ==
    /\ groq.phase \in {"idle", "returned", "raised"}
    /\ groq.call < MaxChatCompletions
    /\ groq' = [phase |-> "attempt", call |-> groq.call + 1, attempt_number |-> 1,
                requests |-> 0, outcomes |-> <<>>, result |-> ""]
    /\ UNCHANGED <<guardrailVars, kb, classify>>

\* Variant: the stop condition is attempt_number > 3.
Attempt_stop_late ==
    /\ groq.phase = "attempt"
    /\ \E outcome \in AttemptOutcomes :
          LET sent == [groq EXCEPT !.requests = @ + 1,
                                   !.outcomes = Append(@, outcome)]
          IN groq' =
               IF outcome.kind = "responds"
               THEN [sent EXCEPT !.phase = "returned", !.result = ContentOf(outcome)]
               ELSE IF ~IsException(outcome.error)
                       \/ groq.attempt_number > MaxAttempts
               THEN [sent EXCEPT !.phase = "raised", !.result = outcome.error]
               ELSE [sent EXCEPT !.phase = "sleep"]
    /\ UNCHANGED <<guardrailVars, kb, classify>>

\* One attempt: the body of chat_completion runs once (one request, line
\* 85), then tenacity returns its value, re-raises its exception (reraise=True
\* once stop_after_attempt(3) says stop) or goes to sleep before the next one.
Attempt ==
    /\ groq.phase = "attempt"
    /\ \E outcome \in AttemptOutcomes :
          LET sent == [groq EXCEPT !.requests = @ + 1,
                                   !.outcomes = Append(@, outcome)]
          IN groq' =
               IF outcome.kind = "responds"
               THEN [sent EXCEPT !.phase = "returned", !.result = ContentOf(outcome)]
               ELSE IF ~IsException(outcome.error)
                       \/ groq.attempt_number >= MaxAttempts
               THEN [sent EXCEPT !.phase = "raised", !.result = outcome.error]
               ELSE [sent EXCEPT !.phase = "sleep"]
    /\ UNCHANGED <<guardrailVars, kb, classify>>

\* wait_exponential(...): the sleep ends and the next attempt starts.
Sleep ==
    /\ groq.phase = "sleep"
    /\ groq' = [groq EXCEPT !.phase = "attempt", !.attempt_number = @ + 1]
    /\ UNCHANGED <<guardrailVars, kb, classify>>

InitGroq == Init /\ draft = ""

NextGroq == ChatCompletion \/ Attempt \/ Sleep

SpecGroq == InitGroq /\ [][NextGroq]_vars

\* ------------------------------------------------------------------------
\* knowledge_base: KnowledgeBase and its module-level singleton
\* ------------------------------------------------------------------------

MaxKbCalls == 4

\* data/urbanroof_knowledge.json, flattened in file order.
KnowledgeFile ==
    <<[category |-> "services",
       item |-> [topic |-> "Terrace waterproofing", content |-> "Membrane coating."]],
      [category |-> "services",
       item |-> [topic |-> "Roof repair", content |-> "Crack filling."]],
      [category |-> "faq",
       item |-> [topic |-> "Thermal scanning", content |-> "Finds hidden seepage."]]>>

\* The file with the item at position j lacking its "topic" key.
WithoutTopic(j) ==
    [i \in 1..Len(KnowledgeFile) |->
        IF i = j
        THEN [category |-> KnowledgeFile[i].category,
              item |-> [content |-> KnowledgeFile[i].item.content]]
        ELSE KnowledgeFile[i]]

\* What one initialise() call finds: the file (missing, not JSON, or its
\* items) and whether embed_texts works.
Environments ==
    {[file |-> "missing"], [file |-> "invalid"]}
        \cup {[file |-> "items", items |-> KnowledgeFile, embed |-> e] :
                 e \in {"ok", "raises"}}
        \cup {[file |-> "items", items |-> WithoutTopic(j), embed |-> "ok"] :
                 j \in 1..Len(KnowledgeFile)}

\* KnowledgeBase.__init__
NewKnowledgeBase == [documents |-> <<>>, index |-> <<>>, has_index |-> FALSE,
                     is_initialised |-> FALSE]

KnowledgeDocument(entry) ==
    [topic |-> entry.item.topic, content |-> entry.item.content,
     category |-> entry.category]

\* embed_texts gives one vector per text, in order.
Embedding(doc) == [of |-> doc.topic]

\* Lines 80-88: the loop appends to self._documents until an item raises
\* KeyError.
Complete(entry) == {"topic", "content"} \subseteq DOMAIN entry.item

FirstIncomplete(items) ==
    IF \A i \in 1..Len(items) : Complete(items[i]) THEN 0
    ELSE MinOf({i \in 1..Len(items) : ~Complete(items[i])})

Loaded(items) ==
    LET stop == FirstIncomplete(items)
        n == IF stop = 0 THEN Len(items) ELSE stop - 1
    IN [i \in 1..n |-> KnowledgeDocument(items[i])]

\* KnowledgeBase.initialise on object self in environment env: the object
\* afterwards and how the call ended.
initialise(self, env) ==
    IF self.is_initialised THEN [self |-> self, outcome |-> "returned"]
    ELSE IF env.file = "missing"
    THEN [self |-> self, outcome |-> "FileNotFoundError"]
    ELSE IF env.file = "invalid"
    THEN [self |-> self, outcome |-> "JSONDecodeError"]
    ELSE LET appended == [self EXCEPT !.documents = @ \o Loaded(env.items)]
         IN IF FirstIncomplete(env.items) # 0
            THEN [self |-> appended, outcome |-> "KeyError"]
            ELSE IF env.embed = "raises"
            THEN [self |-> appended, outcome |-> "OSError"]
            ELSE [self |->
                     [appended EXCEPT
                        !.index = [i \in 1..Len(appended.documents) |->
                                      Embedding(appended.documents[i])],
                        !.has_index = TRUE,
                        !.is_initialised = TRUE],
                  outcome |-> "returned"]

\* get_knowledge_base(): lines 176-182.
GetKnowledgeBase ==
    /\ kb.calls < MaxKbCalls
    /\ \E env \in Environments :
          IF kb.instance = 0
          THEN LET id == Len(kb.objects) + 1
                   done == initialise(NewKnowledgeBase, env)
               IN kb' = [instance |-> id,
                         objects |-> Append(kb.objects, done.self),
                         calls |-> kb.calls + 1,
                         held |-> IF done.outcome = "returned"
                                  THEN kb.held \cup {id} ELSE kb.held,
                         last |-> [op |-> "get_knowledge_base",
                                   outcome |-> done.outcome, instance |-> id]]
          ELSE kb' = [kb EXCEPT !.calls = @ + 1,
                                !.held = @ \cup {kb.instance},
                                !.last = [op |-> "get_knowledge_base",
                                          outcome |-> "returned",
                                          instance |-> kb.instance]]
    /\ UNCHANGED <<guardrailVars, groq, classify>>

\* A caller that holds a returned instance calls its initialise().
InitialiseKb ==
    /\ kb.calls < MaxKbCalls
    /\ \E id \in kb.held, env \in Environments :
          LET done == initialise(kb.objects[id], env)
          IN kb' = [kb EXCEPT !.objects[id] = done.self,
                              !.calls = @ + 1,
                              !.last = [op |-> "initialise",
                                        outcome |-> done.outcome,
                                        instance |-> id,
                                        before |-> kb.objects[id]]]
    /\ UNCHANGED <<guardrailVars, groq, classify>>

\* A caller that holds a returned instance calls its retrieve(): lines
\* 133-134, then the search.
RetrieveKb ==
    /\ kb.calls < MaxKbCalls
    /\ \E id \in kb.held :
          LET self == kb.objects[id]
          IN kb' = [kb EXCEPT !.calls = @ + 1,
                              !.last = [op |-> "retrieve",
                                        outcome |-> IF ~self.is_initialised
                                                       \/ ~self.has_index
                                                    THEN "RuntimeError"
                                                    ELSE "returned",
                                        instance |-> id]]
    /\ UNCHANGED <<guardrailVars, groq, classify>>

InitKb == Init /\ draft = ""

NextKb == GetKnowledgeBase \/ InitialiseKb \/ RetrieveKb

SpecKb == InitKb /\ [][NextKb]_vars

\* ------------------------------------------------------------------------
\* intent_classifier.classify_intent
\* ------------------------------------------------------------------------

\* schemas.CustomerIntent and schemas.Urgency, by value.
CustomerIntents ==
    {"water_damage", "waterproofing_inquiry", "leakage_seepage", "roof_repair",
     "wall_repair", "thermal_scanning", "pricing_inquiry", "service_booking",
     "complaint", "general_inquiry"}

Urgencies == {"low", "medium", "high", "critical"}

\* Confidence is counted in tenths: 0.7 is 7, 1.0 is 10.
DefaultConfidence == 7
MinConfidence == 0
MaxConfidence == 10
MaxTopics == 5

\* A key the object does not have.
Absent == [t |-> "absent"]

\* result.get(key, default)
Get(result, key, default) ==
    IF result[key].t = "absent" THEN default ELSE result[key]

\* CustomerIntent(value) / Urgency(value): the member with that value;
\* every other value of any type is a ValueError.
EnumOf(members, value) ==
    IF value.t = "str" /\ value.v \in members
    THEN [returned |-> value.v]
    ELSE [raised |-> "ValueError"]

\* float(value), in tenths: a number, a string that spells a number, or an
\* exception.
NumericStrings == {<<"0.9", 9>>}

Float(value) ==
    IF value.t = "num" THEN [returned |-> value.v]
    ELSE IF value.t = "str"
    THEN IF \E pair \in NumericStrings : pair[1] = value.v
         THEN [returned |-> (CHOOSE pair \in NumericStrings : pair[1] = value.v)[2]]
         ELSE [raised |-> "ValueError"]
    ELSE [raised |-> "TypeError"]

\* Lines 83-88: the loop over secondary_intents. A string is iterated
\* character by character, and no character is an intent.
SecondaryOf(value) ==
    IF value.t = "list"
    THEN LET Known(raw_intent) == "returned" \in DOMAIN EnumOf(CustomerIntents, raw_intent)
             known == SelectSeq(value.v, Known)
         IN [returned |-> [j \in 1..Len(known) |-> known[j].v]]
    ELSE IF value.t = "str" THEN [returned |-> <<>>]
    ELSE [raised |-> "TypeError"]

\* Line 100: result.get("key_topics", [])[:5]
TopicsOf(value) ==
    IF value.t = "list"
    THEN [returned |-> [j \in 1..MinOf({MaxTopics, Len(value.v)}) |-> value.v[j].v]]
    ELSE [raised |-> "TypeError"]

\* Lines 76-101 of classify_intent: the IntentAnalysis, or the exception
\* that leaves the function.
classify_intent(result) ==
    LET primary_try == EnumOf(CustomerIntents,
                              Get(result, "primary_intent", JsonString("general_inquiry")))
        primary == IF "raised" \in DOMAIN primary_try THEN "general_inquiry"
                   ELSE primary_try.returned
        secondary == SecondaryOf(Get(result, "secondary_intents", JsonList(<<>>)))
        urgency_try == EnumOf(Urgencies, Get(result, "urgency", JsonString("medium")))
        urgency == IF "raised" \in DOMAIN urgency_try THEN "medium"
                   ELSE urgency_try.returned
        confidence == Float(Get(result, "confidence", JsonNumber(DefaultConfidence)))
        key_topics == TopicsOf(Get(result, "key_topics", JsonList(<<>>)))
    IN IF "raised" \in DOMAIN secondary THEN [raised |-> secondary.raised]
       ELSE IF "raised" \in DOMAIN confidence THEN [raised |-> confidence.raised]
       ELSE IF "raised" \in DOMAIN key_topics THEN [raised |-> key_topics.raised]
       ELSE [returned |->
               [primary_intent |-> primary,
                confidence |-> MinOf({MaxOf({confidence.returned, MinConfidence}),
                                      MaxConfidence}),
                secondary_intents |-> secondary.returned,
                urgency |-> urgency,
                key_topics |-> key_topics.returned]]

\* The JSON objects the LLM may return, key by key.
PrimaryValues == {Absent, JsonString("roof_repair"), JsonString("plumbing"), JsonNull}

UrgencyValues == {Absent, JsonString("high"), JsonString("urgent")}

SecondaryValues ==
    {Absent, JsonNull, JsonString("complaint"),
     JsonList(<<JsonString("complaint"), JsonString("plumbing"),
                JsonString("pricing_inquiry")>>)}

ConfidenceValues ==
    {Absent, JsonNull, JsonNumber(4), JsonNumber(15), JsonNumber(0 - 2),
     JsonString("0.9"), JsonString("high")}

TopicValues ==
    {Absent, JsonNull,
     JsonList(<<JsonString("damp"), JsonString("terrace")>>),
     JsonList(<<JsonString("damp"), JsonString("terrace"), JsonString("crack"),
                JsonString("paint"), JsonString("roof"), JsonString("wall")>>)}

IntentResults ==
    [primary_intent : PrimaryValues, urgency : UrgencyValues,
     secondary_intents : SecondaryValues, confidence : ConfidenceValues,
     key_topics : TopicValues]

\* Line 73: groq.chat_completion_json(...) returns the parsed object or raises.
AskIntent ==
    /\ classify.phase = "idle"
    /\ \/ \E result \in IntentResults :
             classify' = [phase |-> "parse", result |-> result]
       \/ \E error \in ApiErrors \cup {"ValueError"} :
             classify' = [phase |-> "done", reply |-> "none",
                        outcome |-> [raised |-> error]]
    /\ UNCHANGED <<guardrailVars, groq, kb>>

\* Lines 76-109.
ParseIntent ==
    /\ classify.phase = "parse"
    /\ classify' = [phase |-> "done", reply |-> "json", result |-> classify.result,
                  outcome |-> classify_intent(classify.result)]
    /\ UNCHANGED <<guardrailVars, groq, kb>>

InitIntent == Init /\ draft = ""

NextIntent == AskIntent \/ ParseIntent

SpecIntent == InitIntent /\ [][NextIntent]_vars

\* ------------------------------------------------------------------------
\* Properties of the failures of generate_lead_response
\* ------------------------------------------------------------------------

\* C21: when _generate_followups caught an exception the request still
\* ends with a LeadResponse, which carries the guardrail-checked reply and
\* no follow-up questions; an exception of classify_intent, retrieve or the
\* draft's chat_completion ends the request without a LeadResponse.
FollowUpFailureIsolation ==
    /\ (gen.followups_raised /\ pc = "done") =>
          /\ response.status = "ok"
          /\ response.follow_up_questions = <<>>
          /\ response.drafted_reply = last.cleaned
          /\ response.guardrail_check = last.check
    /\ gen.followups_raised => gen.followup_questions = <<>>
    /\ response.status = "error" =>
          /\ response.step \in {"classify_intent", "retrieve", "chat_completion"}
          /\ pc = "done"
          /\ last.kind = "none"

FollowUpFailureWitness ==
    /\ response.status = "ok"
    /\ gen.followups_raised
    /\ response.follow_up_questions = <<>>
    /\ ~response.guardrail_check.passed

\* C22: one chat_completion call sends at most 3 requests; it returns the
\* content of the first attempt that did not raise, having sent nothing after
\* it; when 3 attempts raised it raises the exception of the third.
AtMostThreeAttempts ==
    LET n == Len(groq.outcomes)
        Failed(j) == groq.outcomes[j].kind = "raises"
    IN /\ groq.requests = n
       /\ groq.requests <= 3
       /\ groq.phase = "returned" =>
             /\ n >= 1
             /\ ~Failed(n)
             /\ \A j \in 1..(n - 1) : Failed(j)
             /\ groq.result = ContentOf(groq.outcomes[n])
       /\ (n = 3 /\ \A j \in 1..3 : Failed(j)) =>
             /\ groq.phase = "raised"
             /\ groq.result = groq.outcomes[3].error
       /\ groq.phase = "raised" =>
             /\ \A j \in 1..n : Failed(j)
             /\ groq.result = groq.outcomes[n].error

ThreeAttemptsWitness ==
    /\ groq.phase = "raised"
    /\ groq.call = 2
    /\ groq.requests = 3
    /\ groq.outcomes[2].error # groq.outcomes[3].error

FirstSuccessWitness ==
    /\ groq.phase = "returned"
    /\ groq.requests = 2
    /\ groq.result = "Thanks for reaching out."

\* ------------------------------------------------------------------------
\* Properties of the knowledge base
\* ------------------------------------------------------------------------

\* C23: every instance that get_knowledge_base returns is ready, retrieve()
\* on a returned instance never raises the "not initialised" RuntimeError,
\* and all the calls that return give the same instance.
SingletonAlwaysReady ==
    /\ \A id \in kb.held : kb.objects[id].is_initialised
    /\ kb.last.op = "retrieve" => kb.last.outcome # "RuntimeError"
    /\ Cardinality(kb.held) <= 1

\* C24: whenever an instance is ready its document list is the file's
\* documents, each once, and its index holds one vector per document; an
\* initialise() call on a ready instance changes nothing.
InitialiseConsistent ==
    /\ \A id \in 1..Len(kb.objects) :
          LET self == kb.objects[id]
          IN self.is_initialised =>
               /\ self.documents = [i \in 1..Len(KnowledgeFile) |->
                                       KnowledgeDocument(KnowledgeFile[i])]
               /\ Len(self.documents) = Len(KnowledgeFile)
               /\ self.index = [i \in 1..Len(self.documents) |->
                                   Embedding(self.documents[i])]
    /\ (kb.last.op = "initialise" /\ kb.last.before.is_initialised) =>
          /\ kb.last.outcome = "returned"
          /\ kb.objects[kb.last.instance] = kb.last.before

\* ------------------------------------------------------------------------
\* Properties of classify_intent
\* ------------------------------------------------------------------------

IsKnown(members, value) == value.t = "str" /\ value.v \in members

RECURSIVE KnownIntents(_)
KnownIntents(items) ==
    IF items = <<>> THEN <<>>
    ELSE IF IsKnown(CustomerIntents, Head(items))
    THEN <<Head(items).v>> \o KnownIntents(Tail(items))
    ELSE KnownIntents(Tail(items))

\* C25: for every JSON object the LLM returned, classify_intent returns an
\* IntentAnalysis; its primary_intent is the given member or general_inquiry,
\* its urgency the given member or medium, its secondary intents the known
\* ones of the given list in order, it has at most 5 key topics and its
\* confidence lies in [0, 1].
IntentFallbacks ==
    (classify.phase = "done" /\ classify.reply = "json") =>
       /\ "returned" \in DOMAIN classify.outcome
       /\ LET result == classify.result
              analysis == classify.outcome.returned
          IN /\ analysis.primary_intent \in CustomerIntents
             /\ analysis.primary_intent =
                   IF IsKnown(CustomerIntents, result.primary_intent)
                   THEN result.primary_intent.v ELSE "general_inquiry"
             /\ analysis.urgency \in Urgencies
             /\ analysis.urgency =
                   IF IsKnown(Urgencies, result.urgency)
                   THEN result.urgency.v ELSE "medium"
             /\ \A j \in 1..Len(analysis.secondary_intents) :
                   analysis.secondary_intents[j] \in CustomerIntents
             /\ result.secondary_intents.t = "list" =>
                   analysis.secondary_intents = KnownIntents(result.secondary_intents.v)
             /\ Len(analysis.key_topics) <= 5
             /\ analysis.confidence >= 0
             /\ analysis.confidence <= 10

====
